---- MODULE Spec2Model ----
(***************************************************************************)
(* Model of the Gemini response relay of api/model_gemini_service.go:      *)
(* GeminiChatModel.Stream (single-shot and streaming), buildAPIURL,        *)
(* handleRegularResponse, GenerateChatTitle and handleStreamResponse.      *)
(*                                                                         *)
(* One behaviour is one invocation of one entry point.  The variable "in"  *)
(* holds the invocation's inputs and the behaviour of its collaborators    *)
(* (environment, payload builder, provider, consumer); it never changes.   *)
(* Byte strings are sequences of one-character strings.                    *)
(***************************************************************************)
EXTENDS Integers, Sequences, FiniteSets, TLC

VARIABLES
    in,               \* the invocation's inputs and its collaborators' behaviour
    pc,               \* where the invocation is
    answerID,         \* Stream's answerID
    url,              \* the request URL built by buildAPIURL (NoURL: not built)
    dispatched,       \* client.Do has been called
    bodyState,        \* resp.Body: "none" (no response), "open", "closed"
    sseHeader,        \* setSSEHeader(w) has run
    answer,           \* handleStreamResponse's answer
    count,            \* handleStreamResponse's loop counter
    rpos,             \* next unread byte of the provider body
    reads,            \* calls of ReadBytes so far
    forwarded,        \* frames the relay has passed to Fprintf/Fprint
    written,          \* frames the consumer has received
    wfails,           \* writes to the consumer that failed
    readsAfterWfail,  \* calls of ReadBytes made after a failed write
    llmAnswer,        \* result of handleRegularResponse: the answer
    herr,             \* result of handleRegularResponse: the error
    ret               \* what the entry point returned

vars == <<in, pc, answerID, url, dispatched, bodyState, sseHeader,
          answer, count, rpos, reads, forwarded, written, wfails, readsAfterWfail,
          llmAnswer, herr, ret>>

(***************************************************************************)
(* Bounds of the model.                                                    *)
(***************************************************************************)
\* The loop bound of handleStreamResponse.  The source's bound is 10000
\* (line 219); the model runs the same loop with a small bound so that
\* streams longer than the bound are explored.
LineCap == 3
\* Longest provider stream explored, in newline-terminated lines.
MaxLines == LineCap + 1
\* Provider streams explored together with every choice of credential,
\* status and consumer: at most this many newline-terminated lines.
ShortLines == 1

(***************************************************************************)
(* Byte strings.                                                           *)
(***************************************************************************)
NL == "\n"
RECURSIVE Concat(_)
Concat(ss) == IF ss = <<>> THEN <<>> ELSE Head(ss) \o Concat(Tail(ss))

\* bytes.HasPrefix
HasPrefix(s, p) == Len(s) >= Len(p) /\ SubSeq(s, 1, Len(p)) = p
\* bytes.TrimPrefix
TrimPrefix(s, p) == IF HasPrefix(s, p) THEN SubSeq(s, Len(p) + 1, Len(s)) ELSE s

\* headerData := []byte("data: ")
headerData == <<"d", "a", "t", "a", ":", " ">>

Min(S) == CHOOSE x \in S : \A y \in S : x <= y

(***************************************************************************)
(* bufio.Reader.ReadBytes('\n') on the provider body: the bytes from pos   *)
(* up to and including the next newline; when no newline is left, the      *)
(* remaining bytes together with the error that ended the body (io.EOF, or *)
(* the transport's read error).                                            *)
(***************************************************************************)
EOF == "EOF"
\* ReadBytes that hands over the bytes left at the end of input as a line
\* of their own, the error coming with the read after them.
ReadBytes_TailAsLine(body, pos, endErr) ==
    LET rest == SubSeq(body, pos, Len(body))
        nls == { k \in 1..Len(rest) : rest[k] = NL }
    IN  IF nls # {}
        THEN LET k == CHOOSE m \in nls : \A o \in nls : m <= o
             IN  [line |-> SubSeq(rest, 1, k), err |-> "", next |-> pos + k]
        ELSE IF rest # <<>>
        THEN [line |-> rest, err |-> "", next |-> Len(body) + 1]
        ELSE [line |-> rest, err |-> endErr, next |-> Len(body) + 1]

ReadBytes(body, pos, endErr) ==
    LET nls == {i \in pos..Len(body) : body[i] = NL}
    IN  IF nls # {}
        THEN [line |-> SubSeq(body, pos, Min(nls)), err |-> "", next |-> Min(nls) + 1]
        ELSE [line |-> SubSeq(body, pos, Len(body)), err |-> endErr, next |-> Len(body) + 1]

(***************************************************************************)
(* gemini.ParseRespLine (Chunk Parser).  The provider's JSON is modelled   *)
(* by a small grammar: a fragment is valid when, surrounding whitespace    *)
(* aside, it is "{" text "}" with text over TextChar; its increment is     *)
(* text.  Anything else is malformed.                                      *)
(***************************************************************************)
TextChar == {"a", "b"}
IsSpace(c) == c \in {" ", NL}

RECURSIVE TrimLeft(_), TrimRight(_)
TrimLeft(s) == IF s # <<>> /\ IsSpace(Head(s)) THEN TrimLeft(Tail(s)) ELSE s
TrimRight(s) == IF s # <<>> /\ IsSpace(s[Len(s)]) THEN TrimRight(SubSeq(s, 1, Len(s) - 1)) ELSE s
\* strings.TrimSpace
TrimSpace(s) == TrimRight(TrimLeft(s))

IsProviderJSON(p) ==
    LET t == TrimSpace(p)
    IN  /\ Len(t) >= 2
        /\ t[1] = "{"
        /\ t[Len(t)] = "}"
        /\ \A i \in 2..(Len(t) - 1) : t[i] \in TextChar
FragmentText(p) == LET t == TrimSpace(p) IN SubSeq(t, 2, Len(t) - 1)

ParseRespLine(line, acc) ==
    IF IsProviderJSON(line) THEN acc \o FragmentText(line) ELSE acc

(***************************************************************************)
(* What is written to the consumer: the JSON of                            *)
(* constructChatCompletionStreamReponse(answerID, answer), carrying the    *)
(* answer id and the cumulative text; sse tells the framing                *)
(* ("data: %v\n\n" in streaming mode, the bare JSON in single-shot mode).  *)
(***************************************************************************)
Frame(id, text, sse) == [id |-> id, text |-> text, sse |-> sse]

(***************************************************************************)
(* Errors.  NoErr is the nil error.                                        *)
(***************************************************************************)
NoErr == [code |-> "", msg |-> "", debug |-> <<>>]
ErrInternalUnexpected(msg, debug) ==
    [code |-> "ErrInternalUnexpected", msg |-> msg, debug |-> debug]
ErrValidationInvalidInput(msg) ==
    [code |-> "ErrValidationInvalidInput", msg |-> msg, debug |-> <<>>]
ErrStreamUnsupported ==
    [code |-> "STREAM_UNSUPPORTED", msg |-> "Streaming unsupported by client", debug |-> <<>>]

\* fmt.Sprintf("Gemini API error: %d", resp.StatusCode)
ProviderErrorMessage(status) == "Gemini API error: " \o ToString(status)

\* The error kinds of the relay's taxonomy, by the place that raises them.
Kind(e) ==
    CASE e = NoErr -> "none"
      [] e.code = "STREAM_UNSUPPORTED" -> "StreamUnsupported"
      [] e.code = "ErrValidationInvalidInput" -> "ValidationInvalidInput"
      [] e.msg = "GEMINI_API_KEY environment variable not set" -> "Configuration"
      [] e.msg = "Failed to send Gemini API request" -> "TransportFailure"
      [] e.msg \in {ProviderErrorMessage(200), ProviderErrorMessage(500)} -> "ProviderError"
      [] e.msg = "Failed to parse Gemini response" -> "DecodeFailure"
      [] e.msg = "Empty response from Gemini" -> "EmptyAnswer"
      [] e.msg = "Invalid title generated" -> "EmptyAnswer"
      [] OTHER -> "Internal"

\* An *models.LLMAnswer; NoAnswer is the nil pointer.
NoAnswer == [nil |-> TRUE, Answer |-> <<>>, AnswerId |-> ""]
LLMAnswer(text, id) == [nil |-> FALSE, Answer |-> text, AnswerId |-> id]

(***************************************************************************)
(* buildAPIURL: the request URL, as the list of its pieces; os.ExpandEnv   *)
(* puts the value of GEMINI_API_KEY (empty when unset) in the last piece.  *)
(***************************************************************************)
buildAPIURL(model, stream, env) ==
    IF stream
    THEN <<"https://generativelanguage.googleapis.com/v1beta/models/", model, ":",
           "streamGenerateContent?alt=sse", "&key=", env>>
    ELSE <<"https://generativelanguage.googleapis.com/v1beta/models/", model, ":",
           "generateContent", "?key=", env>>
NoURL == <<>>

\* err.Error() of a failed client.Do: Go's *url.Error prints the method, the
\* request URL and the cause.
DoErrorText(u) == <<"Post ">> \o u \o <<": dial tcp: connection refused">>

(***************************************************************************)
(* Inputs.                                                                 *)
(***************************************************************************)
\* Provider stream lines.
Data(p) == headerData \o p \o <<NL>>
LineA == Data(<<"{", "a", "}">>)                \* adds "a"
LineB == Data(<<"{", "b", "}">>)                \* adds "b"
LineEmpty == Data(<<"{", "}">>)                 \* valid, adds nothing
LineBad == Data(<<"x">>)                        \* malformed payload
LineBlank == <<NL>>                             \* keep-alive
LineNoSpace == <<"d", "a", "t", "a", ":", "{", "a", "}", NL>>  \* lacks the prefix
LineSet == {LineA, LineB, LineEmpty, LineBad, LineBlank}
ShortLineSet == LineSet \cup {LineNoSpace}
\* What follows the last newline: nothing, or a line cut off by end of input.
TailSet == {<<>>, headerData \o <<"{", "b", "}">>}

BodiesUpTo(n, lineSet) ==
    {Concat(ls) \o t : ls \in UNION {[1..k -> lineSet] : k \in 0..n}, t \in TailSet}

\* The longest title, line 195.
TitleMax == 100

\* Single-shot provider bodies: raw names the bytes, json tells whether they
\* decode into gemini.ResponseBody, candidates is the decoded
\* Candidates[i].Content.Parts[j].Text.
Reply(raw, json, cands) == [raw |-> raw, json |-> json, candidates |-> cands]
ReplySet ==
    { Reply("not json", FALSE, <<>>),
      Reply("no candidate", TRUE, <<>>),
      Reply("no part", TRUE, << <<>> >>),
      Reply("empty text", TRUE, << << <<>> >> >>),
      Reply("blank text", TRUE, << << <<" ">> >> >>),
      Reply("a", TRUE, << << <<"a">> >> >>),
      Reply("a,b;b", TRUE, << << <<"a">>, <<"b">> >>, << <<"b">> >> >>),
      Reply("padded", TRUE, << << <<" ", "a", "b", " ">> >> >>),
      Reply("quoted", TRUE, << << <<"\"", "a", " ", "b", "\"">> >> >>),
      Reply("starred", TRUE, << << <<"*", "*", "a", "*", "*">> >> >>),
      Reply("quotes only", TRUE, << << <<"\"", "\"">> >> >>),
      Reply("quoted blank", TRUE, << << <<"\"", " ", "\"">> >> >>),
      Reply("quoted stars", TRUE, << << <<"\"", "*", "a", "*", "\"">> >> >>),
      Reply("long", TRUE, << << [i \in 1..(TitleMax + 1) |-> "a"] >> >>) }
NoReply == Reply("", FALSE, <<>>)

ChatTextSet == { <<>>, <<" ", NL>>, <<"h", "i">> }

Input(entry, env, regenerate, flusher, status, readErr, body, reply, chatText) ==
    [ entry |-> entry,            \* "stream", "single": Stream; "title": GenerateChatTitle
      env |-> env,                \* value of GEMINI_API_KEY, "" when unset
      model |-> "gemini-pro",
      regenerate |-> regenerate,
      chatUuid |-> "uuid-chat",
      newUuid |-> "uuid-new",     \* what NewUUID() returns
      flusher |-> flusher,        \* w implements http.Flusher
      status |-> status,          \* resp.StatusCode
      readErr |-> readErr,        \* reading the body ends in an error, not in EOF
      body |-> body,              \* bytes of the streaming body
      reply |-> reply,            \* the single-shot body
      chatText |-> chatText ]

EnvSet == {"", "SECRET"}
StatusSet == {200, 500}

StreamInputs ==
    { Input("stream", "SECRET", r, TRUE, 200, e, b, NoReply, <<>>) :
        r \in BOOLEAN, e \in BOOLEAN, b \in BodiesUpTo(MaxLines, LineSet) }
    \cup
    { Input("stream", k, r, f, st, e, b, NoReply, <<>>) :
        k \in EnvSet, r \in BOOLEAN, f \in BOOLEAN, st \in StatusSet,
        e \in BOOLEAN, b \in BodiesUpTo(ShortLines, ShortLineSet) }
SingleInputs ==
    { Input("single", k, r, TRUE, st, e, <<>>, y, <<>>) :
        k \in EnvSet, r \in BOOLEAN, st \in StatusSet, e \in BOOLEAN, y \in ReplySet }
TitleInputs ==
    { Input("title", k, FALSE, TRUE, st, e, <<>>, y, c) :
        k \in EnvSet, st \in StatusSet, e \in BOOLEAN, y \in ReplySet, c \in ChatTextSet }

NoReturn == [ans |-> NoAnswer, title |-> <<>>, err |-> NoErr]

Init ==
    /\ in \in StreamInputs \cup SingleInputs \cup TitleInputs
    /\ pc = "start"
    /\ answerID = ""
    /\ url = NoURL
    /\ dispatched = FALSE
    /\ bodyState = "none"
    /\ sseHeader = FALSE
    /\ answer = <<>>
    /\ count = 0
    /\ rpos = 1
    /\ reads = 0
    /\ forwarded = <<>>
    /\ written = <<>>
    /\ wfails = 0
    /\ readsAfterWfail = 0
    /\ llmAnswer = NoAnswer
    /\ herr = NoErr
    /\ ret = NoReturn

Returned(a, t, e) == [ans |-> a, title |-> t, err |-> e]

\* fmt.Fprintf(w, ...) / fmt.Fprint(w, ...) and flusher.Flush(): the frames
\* reach the consumer unless it has disconnected; the write's error is not
\* looked at.  A consumer that has disconnected stays disconnected.
WriteOutcomes == IF wfails > 0 THEN {FALSE} ELSE BOOLEAN
Write(frames, ok) ==
    /\ forwarded' = forwarded \o frames
    /\ written' = IF ok THEN written \o frames ELSE written
    /\ wfails' = IF ok THEN wfails ELSE wfails + Len(frames)

(***************************************************************************)
(* GeminiChatModel.Stream, lines 57-81: the answer id, the chat files, the *)
(* payload, the URL and the request.                                       *)
(***************************************************************************)
\* StreamAnswerID with the test of regenerate inverted.
StreamAnswerID_Inverted(i) == IF i.regenerate THEN i.newUuid ELSE i.chatUuid

\* StreamAnswerID with a new id on every call, regeneration or not.
StreamAnswerID_AlwaysNew(i) == i.newUuid

StreamAnswerID(i) == IF ~i.regenerate THEN i.newUuid ELSE i.chatUuid

StreamPrepare ==
    /\ pc = "start"
    /\ in.entry \in {"stream", "single"}
    /\ answerID' = StreamAnswerID(in)
    /\ \E fault \in {"none", "chatFiles", "payload", "request"} :
         CASE fault = "chatFiles" ->
                /\ ret' = Returned(NoAnswer, <<>>,
                             ErrInternalUnexpected("Failed to get chat files", <<"db error">>))
                /\ pc' = "done"
                /\ url' = url
           [] fault = "payload" ->
                /\ ret' = Returned(NoAnswer, <<>>,
                             ErrInternalUnexpected("Failed to generate Gemini payload", <<"payload error">>))
                /\ pc' = "done"
                /\ url' = url
           [] fault = "request" ->
                /\ url' = buildAPIURL(in.model, in.entry = "stream", in.env)
                /\ ret' = Returned(NoAnswer, <<>>,
                             ErrInternalUnexpected("Failed to create Gemini API request", <<"request error">>))
                /\ pc' = "done"
           [] OTHER ->
                /\ url' = buildAPIURL(in.model, in.entry = "stream", in.env)
                /\ pc' = IF in.entry = "stream" THEN "handleStreamResponse"
                                                ELSE "handleRegularResponse"
                /\ ret' = ret
    /\ UNCHANGED <<in, dispatched, bodyState, sseHeader, answer, count, rpos, reads,
                   forwarded, written, wfails, readsAfterWfail, llmAnswer, herr>>

(***************************************************************************)
(* handleStreamResponse, lines 199-217: the request is sent, the SSE       *)
(* headers are set and the consumer is asked for its Flusher.              *)
(***************************************************************************)
\* StreamDo without the test of the consumer's Flusher.
StreamDo_NoFlusherCheck ==
    /\ pc = "handleStreamResponse"
    /\ dispatched' = TRUE
    /\ \E doOk \in BOOLEAN :
         IF ~doOk
         THEN /\ ret' = Returned(NoAnswer, <<>>,
                           ErrInternalUnexpected("Failed to send Gemini API request", DoErrorText(url)))
              /\ pc' = "done"
              /\ UNCHANGED <<bodyState, sseHeader>>
         ELSE /\ sseHeader' = TRUE
              /\ bodyState' = "open"
              /\ pc' = "loop"
              /\ ret' = ret
    /\ answer' = <<>>
    /\ count' = 0
    /\ rpos' = 1
    /\ UNCHANGED <<in, answerID, url, reads, forwarded, written, wfails,
                   readsAfterWfail, llmAnswer, herr>>

\* StreamDo with a provider status other than 200 taken for a failure, as
\* handleRegularResponse takes it.
StreamDo_ChecksStatus ==
    /\ pc = "handleStreamResponse"
    /\ dispatched' = TRUE
    /\ \E doOk \in BOOLEAN :
         IF ~doOk
         THEN /\ ret' = Returned(NoAnswer, <<>>,
                           ErrInternalUnexpected("Failed to send Gemini API request", DoErrorText(url)))
              /\ pc' = "done"
              /\ UNCHANGED <<bodyState, sseHeader>>
         ELSE /\ sseHeader' = TRUE
              /\ IF ~in.flusher
                 THEN /\ ret' = Returned(NoAnswer, <<>>, ErrStreamUnsupported)
                      /\ bodyState' = "closed"
                      /\ pc' = "done"
                 ELSE IF in.status # 200
                 THEN /\ ret' = Returned(NoAnswer, <<>>,
                                   ErrInternalUnexpected("Provider error", <<>>))
                      /\ bodyState' = "closed"
                      /\ pc' = "done"
                 ELSE /\ bodyState' = "open"
                      /\ pc' = "loop"
                      /\ ret' = ret
    /\ answer' = <<>>
    /\ count' = 0
    /\ rpos' = 1
    /\ UNCHANGED <<in, answerID, url, reads, forwarded, written, wfails,
                   readsAfterWfail, llmAnswer, herr>>

StreamDo ==
    /\ pc = "handleStreamResponse"
    /\ dispatched' = TRUE
    /\ \E doOk \in BOOLEAN :
         IF ~doOk
         THEN /\ ret' = Returned(NoAnswer, <<>>,
                           ErrInternalUnexpected("Failed to send Gemini API request", DoErrorText(url)))
              /\ pc' = "done"
              /\ UNCHANGED <<bodyState, sseHeader>>
         ELSE /\ sseHeader' = TRUE
              /\ IF ~in.flusher
                 THEN /\ ret' = Returned(NoAnswer, <<>>, ErrStreamUnsupported)
                      /\ bodyState' = "closed"
                      /\ pc' = "done"
                 ELSE /\ bodyState' = "open"
                      /\ pc' = "loop"
                      /\ ret' = ret
    /\ answer' = <<>>
    /\ count' = 0
    /\ rpos' = 1
    /\ UNCHANGED <<in, answerID, url, reads, forwarded, written, wfails,
                   readsAfterWfail, llmAnswer, herr>>

(***************************************************************************)
(* handleStreamResponse, lines 220-241: one iteration of the loop, from    *)
(* the loop state s = [answer, count, rpos].  exit tells how the iteration *)
(* left the function, if it did; frames is what it passed to Fprintf.      *)
(***************************************************************************)
\* LoopStep with the frame built before the line is folded into the answer.
LoopStep_StaleFrame(body, endErr, id, s) ==
    LET r == ReadBytes(body, s.rpos, endErr)
        line == TrimPrefix(r.line, headerData)
    IN  IF r.err # ""
        THEN [answer |-> s.answer, count |-> s.count, rpos |-> r.next,
              exit |-> IF r.err = EOF THEN "eof" ELSE "error", frames |-> <<>>]
        ELSE IF ~HasPrefix(r.line, headerData)
        THEN [answer |-> s.answer, count |-> s.count + 1, rpos |-> r.next,
              exit |-> "", frames |-> <<>>]
        ELSE [answer |-> ParseRespLine(line, s.answer), count |-> s.count + 1,
              rpos |-> r.next, exit |-> "", frames |-> <<Frame(id, s.answer, TRUE)>>]

\* LoopStep without the test of the "data: " prefix: every line is handled
\* as a data line.
LoopStep_NoSkip(body, endErr, id, s) ==
    LET r == ReadBytes(body, s.rpos, endErr)
        line == TrimPrefix(r.line, headerData)
    IN  IF r.err # ""
        THEN [answer |-> s.answer, count |-> s.count, rpos |-> r.next,
              exit |-> IF r.err = EOF THEN "eof" ELSE "error", frames |-> <<>>]
        ELSE LET a == ParseRespLine(line, s.answer)
             IN  [answer |-> a, count |-> s.count + 1, rpos |-> r.next,
                  exit |-> "", frames |-> <<Frame(id, a, TRUE)>>]

\* LoopStep with a payload that does not parse taken for a read error.
LoopStep_BadLineFails(body, endErr, id, s) ==
    LET r == ReadBytes(body, s.rpos, endErr)
        line == TrimPrefix(r.line, headerData)
    IN  IF r.err # ""
        THEN [answer |-> s.answer, count |-> s.count, rpos |-> r.next,
              exit |-> IF r.err = EOF THEN "eof" ELSE "error", frames |-> <<>>]
        ELSE IF ~HasPrefix(r.line, headerData)
        THEN [answer |-> s.answer, count |-> s.count + 1, rpos |-> r.next,
              exit |-> "", frames |-> <<>>]
        ELSE IF ~IsProviderJSON(line)
        THEN [answer |-> s.answer, count |-> s.count, rpos |-> r.next,
              exit |-> "error", frames |-> <<>>]
        ELSE LET a == ParseRespLine(line, s.answer)
             IN  [answer |-> a, count |-> s.count + 1, rpos |-> r.next,
                  exit |-> "", frames |-> <<Frame(id, a, TRUE)>>]

\* LoopStep with the frame carrying the text of the fragment alone, not the
\* cumulative text.
LoopStep_DeltaFrame(body, endErr, id, s) ==
    LET r == ReadBytes(body, s.rpos, endErr)
        line == TrimPrefix(r.line, headerData)
    IN  IF r.err # ""
        THEN [answer |-> s.answer, count |-> s.count, rpos |-> r.next,
              exit |-> IF r.err = EOF THEN "eof" ELSE "error", frames |-> <<>>]
        ELSE IF ~HasPrefix(r.line, headerData)
        THEN [answer |-> s.answer, count |-> s.count + 1, rpos |-> r.next,
              exit |-> "", frames |-> <<>>]
        ELSE [answer |-> ParseRespLine(line, s.answer), count |-> s.count + 1,
              rpos |-> r.next, exit |-> "",
              frames |-> <<Frame(id, ParseRespLine(line, <<>>), TRUE)>>]

\* LoopStep with every error of ReadBytes taken for the end of the input.
LoopStep_ErrAsEOF(body, endErr, id, s) ==
    LET r == ReadBytes(body, s.rpos, endErr)
        line == TrimPrefix(r.line, headerData)
    IN  IF r.err # ""
        THEN [answer |-> s.answer, count |-> s.count, rpos |-> r.next,
              exit |-> "eof", frames |-> <<>>]
        ELSE IF ~HasPrefix(r.line, headerData)
        THEN [answer |-> s.answer, count |-> s.count + 1, rpos |-> r.next,
              exit |-> "", frames |-> <<>>]
        ELSE LET a == ParseRespLine(line, s.answer)
             IN  [answer |-> a, count |-> s.count + 1, rpos |-> r.next,
                  exit |-> "", frames |-> <<Frame(id, a, TRUE)>>]

\* LoopStep with the counter left alone when a line is skipped.
LoopStep_SkipNotCounted(body, endErr, id, s) ==
    LET r == ReadBytes(body, s.rpos, endErr)
        line == TrimPrefix(r.line, headerData)
    IN  IF r.err # ""
        THEN [answer |-> s.answer, count |-> s.count, rpos |-> r.next,
              exit |-> IF r.err = EOF THEN "eof" ELSE "error", frames |-> <<>>]
        ELSE IF ~HasPrefix(r.line, headerData)
        THEN [answer |-> s.answer, count |-> s.count, rpos |-> r.next,
              exit |-> "", frames |-> <<>>]
        ELSE LET a == ParseRespLine(line, s.answer)
             IN  [answer |-> a, count |-> s.count + 1, rpos |-> r.next,
                  exit |-> "", frames |-> <<Frame(id, a, TRUE)>>]

LoopStep(body, endErr, id, s) ==
    LET r == ReadBytes(body, s.rpos, endErr)
        line == TrimPrefix(r.line, headerData)
    IN  IF r.err # ""
        THEN [answer |-> s.answer, count |-> s.count, rpos |-> r.next,
              exit |-> IF r.err = EOF THEN "eof" ELSE "error", frames |-> <<>>]
        ELSE IF ~HasPrefix(r.line, headerData)
        THEN [answer |-> s.answer, count |-> s.count + 1, rpos |-> r.next,
              exit |-> "", frames |-> <<>>]
        ELSE IF Len(line) > 0
        THEN LET a == ParseRespLine(line, s.answer)
             IN  [answer |-> a, count |-> s.count + 1, rpos |-> r.next,
                  exit |-> "", frames |-> <<Frame(id, a, TRUE)>>]
        ELSE [answer |-> s.answer, count |-> s.count + 1, rpos |-> r.next,
              exit |-> "", frames |-> <<>>]

\* The error that ends the provider body.
EndErr(i) == IF i.readErr THEN "connection reset" ELSE EOF

StreamLoop ==
    /\ pc = "loop"
    /\ count < LineCap
    /\ LET n == LoopStep(in.body, EndErr(in), answerID,
                         [answer |-> answer, count |-> count, rpos |-> rpos])
       IN  /\ answer' = n.answer
           /\ count' = n.count
           /\ rpos' = n.rpos
           /\ \E ok \in WriteOutcomes : Write(n.frames, ok)
           /\ CASE n.exit = "eof" ->
                     /\ ret' = Returned(LLMAnswer(answer, answerID), <<>>, NoErr)
                     /\ bodyState' = "closed"
                     /\ pc' = "done"
                [] n.exit = "error" ->
                     /\ ret' = Returned(NoAnswer, <<>>,
                                  ErrInternalUnexpected("Error reading stream", <<EndErr(in)>>))
                     /\ bodyState' = "closed"
                     /\ pc' = "done"
                [] OTHER ->
                     UNCHANGED <<ret, bodyState, pc>>
    /\ reads' = reads + 1
    /\ readsAfterWfail' = IF wfails > 0 THEN readsAfterWfail + 1 ELSE readsAfterWfail
    /\ UNCHANGED <<in, answerID, url, dispatched, sseHeader, llmAnswer, herr>>

\* StreamCap with the loop bound taken for a failure.
StreamCap_Fails ==
    /\ pc = "loop"
    /\ ~(count < LineCap)
    /\ ret' = Returned(NoAnswer, <<>>, ErrInternalUnexpected("Error reading stream", <<"too many lines">>))
    /\ bodyState' = "closed"
    /\ pc' = "done"
    /\ UNCHANGED <<in, answerID, url, dispatched, sseHeader, answer, count, rpos, reads,
                   forwarded, written, wfails, readsAfterWfail, llmAnswer, herr>>

\* handleStreamResponse, lines 219 and 244-247: the loop bound is reached.
StreamCap ==
    /\ pc = "loop"
    /\ ~(count < LineCap)
    /\ ret' = Returned(LLMAnswer(answer, answerID), <<>>, NoErr)
    /\ bodyState' = "closed"
    /\ pc' = "done"
    /\ UNCHANGED <<in, answerID, url, dispatched, sseHeader, answer, count, rpos, reads,
                   forwarded, written, wfails, readsAfterWfail, llmAnswer, herr>>

(***************************************************************************)
(* handleRegularResponse, lines 103-138, as a function of the outcome of   *)
(* client.Do (doOk), the provider's response and the request URL.  panic   *)
(* tells that an index was out of range at line 129; body is the state of  *)
(* resp.Body when the function is left.                                    *)
(***************************************************************************)
RegularResult(panic, a, e, body) == [panic |-> panic, ans |-> a, err |-> e, body |-> body]

\* handleRegularResponse without the Close of line 111: a response of
\* non-success status leaves its body open.
handleRegularResponse_NoCloseOnStatus(doOk, i, u) ==
    IF ~doOk
    THEN RegularResult(FALSE, NoAnswer,
             ErrInternalUnexpected("Failed to send Gemini API request", DoErrorText(u)), "none")
    ELSE IF i.status # 200
    THEN RegularResult(FALSE, NoAnswer,
             ErrInternalUnexpected(ProviderErrorMessage(i.status), <<i.reply.raw>>), "open")
    ELSE IF i.readErr
    THEN RegularResult(FALSE, NoAnswer,
             ErrInternalUnexpected("Failed to read Gemini response", <<EndErr(i)>>), "closed")
    ELSE IF ~i.reply.json
    THEN RegularResult(FALSE, NoAnswer,
             ErrInternalUnexpected("Failed to parse Gemini response", <<"invalid character">>), "closed")
    ELSE IF Len(i.reply.candidates) < 1 \/ Len(i.reply.candidates[1]) < 1
    THEN RegularResult(TRUE, NoAnswer, NoErr, "closed")
    ELSE IF i.reply.candidates[1][1] = <<>>
    THEN RegularResult(FALSE, NoAnswer,
             ErrInternalUnexpected("Empty response from Gemini", <<>>), "closed")
    ELSE RegularResult(FALSE, LLMAnswer(i.reply.candidates[1][1], ""), NoErr, "closed")

handleRegularResponse(doOk, i, u) ==
    IF ~doOk
    THEN RegularResult(FALSE, NoAnswer,
             ErrInternalUnexpected("Failed to send Gemini API request", DoErrorText(u)), "none")
    ELSE IF i.status # 200
    THEN RegularResult(FALSE, NoAnswer,
             ErrInternalUnexpected(ProviderErrorMessage(i.status), <<i.reply.raw>>), "closed")
    ELSE IF i.readErr
    THEN RegularResult(FALSE, NoAnswer,
             ErrInternalUnexpected("Failed to read Gemini response", <<EndErr(i)>>), "closed")
    ELSE IF ~i.reply.json
    THEN RegularResult(FALSE, NoAnswer,
             ErrInternalUnexpected("Failed to parse Gemini response", <<"invalid character">>), "closed")
    ELSE IF Len(i.reply.candidates) < 1 \/ Len(i.reply.candidates[1]) < 1
    THEN RegularResult(TRUE, NoAnswer, NoErr, "closed")
    ELSE IF i.reply.candidates[1][1] = <<>>
    THEN RegularResult(FALSE, NoAnswer,
             ErrInternalUnexpected("Empty response from Gemini", <<>>), "closed")
    ELSE RegularResult(FALSE, LLMAnswer(i.reply.candidates[1][1], ""), NoErr, "closed")

RegularResponse ==
    /\ pc = "handleRegularResponse"
    /\ dispatched' = TRUE
    /\ \E doOk \in BOOLEAN :
         LET r == handleRegularResponse(doOk, in, url)
         IN  /\ llmAnswer' = r.ans
             /\ herr' = r.err
             /\ bodyState' = r.body
             /\ pc' = IF r.panic THEN "panic at line 129"
                      ELSE IF in.entry = "single" THEN "streamReturn" ELSE "titleReturn"
    /\ UNCHANGED <<in, answerID, url, sseHeader, answer, count, rpos, reads,
                   forwarded, written, wfails, readsAfterWfail, ret>>

(***************************************************************************)
(* GeminiChatModel.Stream, lines 84-90: the single-shot answer gets its    *)
(* id, is written to the consumer and returned.  llmAnswer.Answer at line  *)
(* 87 dereferences llmAnswer, which is nil when handleRegularResponse      *)
(* failed.                                                                 *)
(***************************************************************************)
StreamReturn ==
    /\ pc = "streamReturn"
    /\ IF llmAnswer.nil
       THEN /\ pc' = "panic at line 87"
            /\ UNCHANGED <<llmAnswer, forwarded, written, wfails, ret>>
       ELSE /\ llmAnswer' = [llmAnswer EXCEPT !.AnswerId = answerID]
            /\ \E ok \in WriteOutcomes :
                 Write(<<Frame(answerID, llmAnswer.Answer, FALSE)>>, ok)
            /\ ret' = Returned(llmAnswer', <<>>, herr)
            /\ pc' = "done"
    /\ UNCHANGED <<in, answerID, url, dispatched, bodyState, sseHeader, answer, count,
                   rpos, reads, readsAfterWfail, herr>>

(***************************************************************************)
(* GenerateChatTitle.                                                      *)
(***************************************************************************)
\* strings.Trim(s, cutset): s without its leading and trailing characters
\* that are in cutset.
RECURSIVE TrimLeftSet(_, _), TrimRightSet(_, _)
TrimLeftSet(s, cutset) ==
    IF s # <<>> /\ Head(s) \in cutset THEN TrimLeftSet(Tail(s), cutset) ELSE s
TrimRightSet(s, cutset) ==
    IF s # <<>> /\ s[Len(s)] \in cutset
    THEN TrimRightSet(SubSeq(s, 1, Len(s) - 1), cutset) ELSE s
Trim(s, cutset) == TrimRightSet(TrimLeftSet(s, cutset), cutset)

\* firstN(s, n): the first n characters of s.
firstN(s, n) == IF Len(s) > n THEN SubSeq(s, 1, n) ELSE s

\* TitleValidate without the test of the chat text (lines 148-150).
TitleValidate_NoTextCheck ==
    /\ pc = "start"
    /\ in.entry = "title"
    /\ IF in.env = ""
       THEN /\ ret' = Returned(NoAnswer, <<>>,
                         ErrInternalUnexpected("GEMINI_API_KEY environment variable not set", <<>>))
            /\ pc' = "done"
            /\ url' = url
       ELSE \E fault \in {"none", "payload", "request"} :
              CASE fault = "payload" ->
                     /\ ret' = Returned(NoAnswer, <<>>,
                                  ErrInternalUnexpected("Failed to generate Gemini payload", <<"payload error">>))
                     /\ pc' = "done"
                     /\ url' = url
                [] fault = "request" ->
                     /\ url' = buildAPIURL(in.model, FALSE, in.env)
                     /\ ret' = Returned(NoAnswer, <<>>,
                                  ErrInternalUnexpected("Failed to create Gemini API request", <<"request error">>))
                     /\ pc' = "done"
                [] OTHER ->
                     /\ url' = buildAPIURL(in.model, FALSE, in.env)
                     /\ pc' = "handleRegularResponse"
                     /\ ret' = ret
    /\ UNCHANGED <<in, answerID, dispatched, bodyState, sseHeader, answer, count, rpos,
                   reads, forwarded, written, wfails, readsAfterWfail, llmAnswer, herr>>

\* Lines 142-176: the key and the chat text are validated, the payload, the
\* URL and the request are made.
TitleValidate ==
    /\ pc = "start"
    /\ in.entry = "title"
    /\ IF in.env = ""
       THEN /\ ret' = Returned(NoAnswer, <<>>,
                         ErrInternalUnexpected("GEMINI_API_KEY environment variable not set", <<>>))
            /\ pc' = "done"
            /\ url' = url
       ELSE IF TrimSpace(in.chatText) = <<>>
       THEN /\ ret' = Returned(NoAnswer, <<>>,
                         ErrValidationInvalidInput("chat text cannot be empty"))
            /\ pc' = "done"
            /\ url' = url
       ELSE \E fault \in {"none", "payload", "request"} :
              CASE fault = "payload" ->
                     /\ ret' = Returned(NoAnswer, <<>>,
                                  ErrInternalUnexpected("Failed to generate Gemini payload", <<"payload error">>))
                     /\ pc' = "done"
                     /\ url' = url
                [] fault = "request" ->
                     /\ url' = buildAPIURL(in.model, FALSE, in.env)
                     /\ ret' = Returned(NoAnswer, <<>>,
                                  ErrInternalUnexpected("Failed to create Gemini API request", <<"request error">>))
                     /\ pc' = "done"
                [] OTHER ->
                     /\ url' = buildAPIURL(in.model, FALSE, in.env)
                     /\ pc' = "handleRegularResponse"
                     /\ ret' = ret
    /\ UNCHANGED <<in, answerID, dispatched, bodyState, sseHeader, answer, count, rpos,
                   reads, forwarded, written, wfails, readsAfterWfail, llmAnswer, herr>>

\* CleanTitle without the removal of the emphasis marks (line 189).
CleanTitle_KeepsStars(reply) == Trim(TrimSpace(reply), {"\""})

\* Lines 187-195: the reply is cleaned up and cut to TitleMax characters.
\* The result is <<>> when the cleaned reply is blank.
CleanTitle(reply) == Trim(Trim(TrimSpace(reply), {"\""}), {"*"})

\* Lines 178-195.
TitleReturn ==
    /\ pc = "titleReturn"
    /\ ret' = IF herr # NoErr
              THEN Returned(NoAnswer, <<>>, herr)
              ELSE IF llmAnswer.nil \/ llmAnswer.Answer = <<>>
              THEN Returned(NoAnswer, <<>>,
                       ErrInternalUnexpected("Empty response from Gemini", <<>>))
              ELSE IF CleanTitle(llmAnswer.Answer) = <<>>
              THEN Returned(NoAnswer, <<>>,
                       ErrInternalUnexpected("Invalid title generated", <<>>))
              ELSE Returned(NoAnswer, firstN(CleanTitle(llmAnswer.Answer), TitleMax), NoErr)
    /\ pc' = "done"
    /\ UNCHANGED <<in, answerID, url, dispatched, bodyState, sseHeader, answer, count,
                   rpos, reads, forwarded, written, wfails, readsAfterWfail, llmAnswer, herr>>

Next ==
    \/ StreamPrepare
    \/ StreamDo
    \/ StreamLoop
    \/ StreamCap
    \/ RegularResponse
    \/ StreamReturn
    \/ TitleValidate
    \/ TitleReturn

Spec == Init /\ [][Next]_vars


(***************************************************************************)
(* The whole of handleStreamResponse's loop (lines 219-247) on a body, as  *)
(* a function: the iterations of LoopStep from the loop state s up to the  *)
(* loop bound, with the frames forwarded on the way.                       *)
(***************************************************************************)
RECURSIVE RunLoop(_, _, _, _, _)
RunLoop(body, endErr, id, s, frames) ==
    IF ~(s.count < LineCap)
    THEN [ret |-> Returned(LLMAnswer(s.answer, id), <<>>, NoErr), frames |-> frames]
    ELSE LET n == LoopStep(body, endErr, id, s)
         IN  CASE n.exit = "eof" ->
                    [ret |-> Returned(LLMAnswer(s.answer, id), <<>>, NoErr), frames |-> frames]
               [] n.exit = "error" ->
                    [ret |-> Returned(NoAnswer, <<>>,
                                 ErrInternalUnexpected("Error reading stream", <<endErr>>)),
                     frames |-> frames]
               [] OTHER ->
                    RunLoop(body, endErr, id,
                            [answer |-> n.answer, count |-> n.count, rpos |-> n.rpos],
                            frames \o n.frames)
RunStream(body, endErr, id) ==
    RunLoop(body, endErr, id, [answer |-> <<>>, count |-> 0, rpos |-> 1], <<>>)

(***************************************************************************)
(* Vocabulary of the properties.                                           *)
(***************************************************************************)
\* The newline-terminated lines of a body, and what follows the last newline.
RECURSIVE LinesFrom(_, _)
LinesFrom(body, pos) ==
    LET r == ReadBytes(body, pos, EOF)
    IN  IF r.err # "" THEN <<>> ELSE <<r.line>> \o LinesFrom(body, r.next)
Lines(body) == LinesFrom(body, 1)
Unterminated(body) ==
    LET n == Len(Concat(Lines(body))) IN SubSeq(body, n + 1, Len(body))

Significant(line) == HasPrefix(line, headerData)
Payload(line) == SubSeq(line, Len(headerData) + 1, Len(line))
Malformed(line) == Significant(line) /\ ~IsProviderJSON(Payload(line))
AddsText(line) ==
    Significant(line) /\ IsProviderJSON(Payload(line)) /\ FragmentText(Payload(line)) # <<>>

\* The fold of the Chunk Parser over the payloads of lines, from acc.
RECURSIVE ParserFold(_, _)
ParserFold(lines, acc) ==
    IF lines = <<>> THEN acc
    ELSE ParserFold(Tail(lines), ParseRespLine(Payload(Head(lines)), acc))

\* The streaming relay obtained the provider's response and entered its loop.
Streaming == in.entry = "stream" /\ bodyState # "none" /\ in.flusher
Complete == pc = "done" /\ ret.err = NoErr /\ ~ret.ans.nil
Failed == pc = "done" /\ ret.err # NoErr /\ ret.ans.nil
\* The id the caller chose for the answer.
CallerId == IF in.regenerate THEN in.chatUuid ELSE in.newUuid

(***************************************************************************)
(* C1.  A stream of N newline-terminated data lines that each add text,    *)
(* N below the loop bound, read to its end by a consumer that stays        *)
(* connected: the returned text is the parser's fold over the lines from   *)
(* the empty text, and the consumer gets exactly N frames, the i-th        *)
(* carrying the fold of the first i lines, with lengths that never         *)
(* decrease.                                                               *)
(***************************************************************************)
C1_Case ==
    /\ Streaming
    /\ pc = "done"
    /\ ~in.readErr
    /\ wfails = 0
    /\ Unterminated(in.body) = <<>>
    /\ Len(Lines(in.body)) < LineCap
    /\ \A i \in 1..Len(Lines(in.body)) : AddsText(Lines(in.body)[i])

C1_StreamFold ==
    C1_Case =>
      LET ls == Lines(in.body)
      IN  /\ Complete
          /\ ret.ans.Answer = ParserFold(ls, <<>>)
          /\ Len(written) = Len(ls)
          /\ \A i \in 1..Len(ls) :
               written[i] = Frame(CallerId, ParserFold(SubSeq(ls, 1, i), <<>>), TRUE)
          /\ \A i \in 1..(Len(written) - 1) :
               Len(written[i].text) <= Len(written[i + 1].text)

C1_Witness ==
    /\ C1_Case
    /\ in.body = LineA \o LineB
    /\ ret.ans.Answer = <<"a", "b">>
    /\ Len(written) = 2

(***************************************************************************)
(* C2.  Skip-invariance.  The body without its lines that lack the         *)
(* "data: " prefix is StripInserted(body); the relay's result and frames   *)
(* on it are RunStream's.                                                  *)
(***************************************************************************)
StripInserted(body) ==
    Concat(SelectSeq(Lines(body), Significant)) \o Unterminated(body)

SameAsWithoutInserted ==
    LET ref == RunStream(StripInserted(in.body), EndErr(in), answerID)
    IN  /\ ret = ref.ret
        /\ forwarded = ref.frames

\* C2 as stated: for every provider stream, the returned result and the
\* frames forwarded are those of the stream without the lines that lack the
\* prefix.
C2_Original == (Streaming /\ pc = "done") => SameAsWithoutInserted

\* C2 amended: the same, for streams that, inserted lines included, have
\* fewer lines than the loop bound.
C2_SkipInvariance ==
    (Streaming /\ pc = "done" /\ Len(Lines(in.body)) < LineCap) => SameAsWithoutInserted

C2_Witness ==
    /\ Streaming
    /\ pc = "done"
    /\ in.body = LineBlank \o LineA
    /\ forwarded = <<Frame(answerID, <<"a">>, TRUE)>>
    /\ reads = 3

(***************************************************************************)
(* C3.  A failed write to the consumer ends the invocation at once: it     *)
(* has returned a ConsumerWriteFailure and no answer, the provider body is *)
(* closed and no read follows the failed write.                            *)
(***************************************************************************)
C3_WriteFailureIsTerminal ==
    (in.entry = "stream" /\ wfails > 0) =>
      /\ pc = "done"
      /\ Kind(ret.err) = "ConsumerWriteFailure"
      /\ ret.ans.nil
      /\ bodyState = "closed"
      /\ readsAfterWfail = 0

(***************************************************************************)
(* C4.  A failed single-shot path (handleRegularResponse returned an       *)
(* error) never crashes Stream and never writes to the consumer, and       *)
(* Stream returns that error and no answer.                                *)
(***************************************************************************)
C4_SingleShotFailureReturned ==
    (in.entry = "single" /\ herr # NoErr) =>
      /\ pc \in {"streamReturn", "done"}
      /\ forwarded = <<>>
      /\ written = <<>>
      /\ pc = "done" => (ret.err = herr /\ ret.ans.nil)

(***************************************************************************)
(* C5.  A decodable status-200 single-shot response without a candidate,   *)
(* without a text part, or with an empty or whitespace-only first text     *)
(* makes handleRegularResponse return an EmptyAnswer error and no answer.  *)
(***************************************************************************)
EmptyReply(y) ==
    \/ Len(y.candidates) = 0
    \/ Len(y.candidates[1]) = 0
    \/ TrimSpace(y.candidates[1][1]) = <<>>

C5_EmptyAnswerRejected ==
    ( /\ in.entry \in {"single", "title"}
      /\ bodyState = "closed"
      /\ in.status = 200
      /\ ~in.readErr
      /\ in.reply.json
      /\ EmptyReply(in.reply) ) =>
      /\ pc # "panic at line 129"
      /\ llmAnswer.nil
      /\ Kind(herr) = "EmptyAnswer"

(***************************************************************************)
(* C6.  A malformed data line neither ends the relay nor changes the       *)
(* accumulated text: the step that reads it leaves answer as it was and    *)
(* returns nothing, and at every moment the accumulated text is the fold   *)
(* of the parser over the data lines read so far with the malformed ones   *)
(* left out.                                                               *)
(***************************************************************************)
NextRead == ReadBytes(in.body, rpos, EndErr(in))
WellFormed(line) == Significant(line) /\ ~Malformed(line)
LinesRead == SubSeq(Lines(in.body), 1, count)

C6_MalformedStep ==
    (pc = "loop" /\ count < LineCap /\ NextRead.err = "" /\ Malformed(NextRead.line)) =>
      /\ answer' = answer
      /\ pc' = "loop"
      /\ ret' = ret
      /\ rpos' = NextRead.next

C6_MalformedHarmless ==
    /\ [](Streaming =>
            /\ answer = ParserFold(SelectSeq(LinesRead, WellFormed), <<>>)
            /\ Complete => ret.ans.Answer = answer)
    /\ [][C6_MalformedStep]_vars

C6_Witness ==
    /\ Streaming
    /\ Complete
    /\ in.body = LineBad \o LineA
    /\ ret.ans.Answer = <<"a">>
    /\ reads = 3

(***************************************************************************)
(* C7.  A stream of more lines than the loop bound: the relay stops        *)
(* reading at the bound and returns, without error, the caller's id and    *)
(* the text folded from the lines read up to the bound.                    *)
(***************************************************************************)
C7_CapCompletes ==
    (Streaming /\ pc = "done" /\ Len(Lines(in.body)) > LineCap) =>
      /\ Complete
      /\ reads = LineCap
      /\ ret.ans = LLMAnswer(
            ParserFold(SelectSeq(SubSeq(Lines(in.body), 1, LineCap), Significant), <<>>),
            CallerId)

C7_Witness ==
    /\ Streaming
    /\ pc = "done"
    /\ Len(Lines(in.body)) > LineCap
    /\ count = LineCap
    /\ ret.ans.Answer # <<>>

(***************************************************************************)
(* C8.  Without a credential no entry point builds a URL or sends a        *)
(* request: it returns a Configuration error.                              *)
(***************************************************************************)
C8_MissingKeyRefused ==
    in.env = "" =>
      /\ url = NoURL
      /\ ~dispatched
      /\ pc = "done" => (Kind(ret.err) = "Configuration" /\ ret.ans.nil /\ ret.title = <<>>)

(***************************************************************************)
(* C9.  A status-200 single-shot response whose first candidate's first    *)
(* text part is not empty: Stream returns no error and an answer with that *)
(* text, unmodified, and the id the caller chose.                          *)
(***************************************************************************)
C9_Case ==
    /\ in.entry = "single"
    /\ bodyState = "closed"
    /\ pc # "streamReturn"
    /\ in.status = 200
    /\ ~in.readErr
    /\ in.reply.json
    /\ Len(in.reply.candidates) >= 1
    /\ Len(in.reply.candidates[1]) >= 1
    /\ in.reply.candidates[1][1] # <<>>

C9_SingleShotAnswer ==
    C9_Case =>
      /\ pc = "done"
      /\ ret.err = NoErr
      /\ ret.ans = LLMAnswer(in.reply.candidates[1][1],
                             IF in.regenerate THEN in.chatUuid ELSE in.newUuid)

C9_Witness ==
    /\ C9_Case
    /\ in.regenerate
    /\ ret.ans = LLMAnswer(<<" ", "a", "b", " ">>, "uuid-chat")

(***************************************************************************)
(* C10.  A consumer without incremental flushing: the streaming relay      *)
(* never reads a line of the provider body and never writes a byte of body *)
(* to the consumer; it returns no answer, and once the provider's response *)
(* is there the error it returns is StreamUnsupported.                     *)
(***************************************************************************)
C10_StreamUnsupported ==
    (in.entry = "stream" /\ ~in.flusher) =>
      /\ reads = 0
      /\ forwarded = <<>>
      /\ written = <<>>
      /\ pc # "loop"
      /\ pc = "done" =>
           /\ ret.ans.nil
           /\ ret.err # NoErr
           /\ bodyState # "none" => Kind(ret.err) = "StreamUnsupported"

C10_Witness ==
    /\ in.entry = "stream"
    /\ ~in.flusher
    /\ pc = "done"
    /\ in.body = LineA
    /\ sseHeader
    /\ Kind(ret.err) = "StreamUnsupported"

(***************************************************************************)
(* C11.  The provider body is released on every exit path: an invocation   *)
(* that has ended (returned or panicked) never leaves the body open, and   *)
(* once client.Do has delivered a response the body is closed.             *)
(***************************************************************************)
Ended == pc \in {"done", "panic at line 87", "panic at line 129"}
\* client.Do was called and did not fail.
GotResponse ==
    /\ dispatched
    /\ pc \notin {"handleStreamResponse", "handleRegularResponse"}
    /\ Kind(ret.err) # "TransportFailure"
    /\ Kind(herr) # "TransportFailure"

C11_BodyReleased ==
    /\ Ended => bodyState # "open"
    /\ (Ended /\ GotResponse) => bodyState = "closed"
    /\ (in.entry \in {"single", "title"} /\ GotResponse) => bodyState = "closed"

C11_Witness ==
    /\ in.entry = "title"
    /\ pc = "done"
    /\ in.status = 500
    /\ Kind(ret.err) = "ProviderError"
    /\ bodyState = "closed"

(***************************************************************************)
(* C12.  GenerateChatTitle with an empty or whitespace-only transcript.    *)
(***************************************************************************)
BlankTranscript == in.entry = "title" /\ TrimSpace(in.chatText) = <<>>

NoNetworkCall == ~dispatched /\ url = NoURL /\ bodyState = "none"

\* C12 as stated: whatever the rest of the configuration, the call fails
\* with ValidationInvalidInput before any network call.
C12_Original ==
    BlankTranscript =>
      /\ NoNetworkCall
      /\ pc # "start" => (pc = "done" /\ Kind(ret.err) = "ValidationInvalidInput")

\* C12 amended: no network call is made in any case; the error is
\* ValidationInvalidInput when the credential is set, and the Configuration
\* error of the key test, which comes first, when it is not.
C12_BlankTranscriptRejected ==
    BlankTranscript =>
      /\ NoNetworkCall
      /\ pc # "start" =>
           /\ pc = "done"
           /\ ret.title = <<>>
           /\ Kind(ret.err) =
                IF in.env # "" THEN "ValidationInvalidInput" ELSE "Configuration"

C12_Witness ==
    /\ BlankTranscript
    /\ in.chatText = <<" ", NL>>
    /\ in.env = "SECRET"
    /\ pc = "done"
    /\ ret.err = ErrValidationInvalidInput("chat text cannot be empty")

(***************************************************************************)
(* C13.  The accumulated text of the streaming relay is at every moment    *)
(* the text of the frame forwarded last (the empty text before the first   *)
(* frame), and a successful return after at least one frame returns the id *)
(* and the text of the frame forwarded last.                               *)
(***************************************************************************)
LastForwarded == forwarded[Len(forwarded)]

C13_AnswerMirrorsLastFrame ==
    Streaming =>
      /\ forwarded = <<>> => answer = <<>>
      /\ forwarded # <<>> =>
           /\ LastForwarded.text = answer
           /\ Complete =>
                /\ ret.ans.Answer = LastForwarded.text
                /\ ret.ans.AnswerId = LastForwarded.id

C13_Witness ==
    /\ Streaming
    /\ Complete
    /\ Len(forwarded) = 2
    /\ forwarded[1].text = <<"a">>
    /\ ret.ans = LLMAnswer(<<"a", "b">>, LastForwarded.id)

(***************************************************************************)
(* C14.  Stream fixes the answer id before anything is forwarded: the chat *)
(* uuid when regenerating, a new id otherwise.  Every frame forwarded and  *)
(* the answer returned carry it, and it never changes afterwards.          *)
(***************************************************************************)
C14_IdState ==
    in.entry \in {"stream", "single"} =>
      /\ pc = "start" => forwarded = <<>>
      /\ pc # "start" => answerID = CallerId
      /\ \A i \in 1..Len(forwarded) : forwarded[i].id = CallerId
      /\ \A i \in 1..Len(written) : written[i].id = CallerId
      /\ ~ret.ans.nil => ret.ans.AnswerId = CallerId

C14_IdStep == pc # "start" => answerID' = answerID

C14_IdFixed == []C14_IdState /\ [][C14_IdStep]_vars

C14_Witness ==
    /\ in.entry = "stream"
    /\ in.regenerate
    /\ Complete
    /\ Len(forwarded) = 2
    /\ forwarded[1].id = "uuid-chat"
    /\ forwarded[2].id = "uuid-chat"
    /\ ret.ans.AnswerId = "uuid-chat"

(***************************************************************************)
(* C15.  When a read of the provider body ends in an error: on a read      *)
(* error the relay returns the error "Error reading stream" and no answer, *)
(* whatever text had accumulated; on end of input it returns the           *)
(* accumulated answer without error.  After its return nothing is read.    *)
(***************************************************************************)
\* The last call of ReadBytes returned an error: it is the one call that
\* did not count as an iteration.
LastReadEnded == reads > count

C15_State ==
    (Streaming /\ pc = "done" /\ LastReadEnded) =>
      IF in.readErr
      THEN /\ Failed
           /\ ret.err.msg = "Error reading stream"
           /\ ret.err.debug = <<"connection reset">>
      ELSE /\ Complete
           /\ ret.ans = LLMAnswer(answer, CallerId)

C15_Step == pc = "done" => (reads' = reads /\ rpos' = rpos)

C15_ReadErrorFails == []C15_State /\ [][C15_Step]_vars

C15_Witness ==
    /\ Streaming
    /\ pc = "done"
    /\ in.readErr
    /\ answer = <<"a", "b">>
    /\ Len(forwarded) = 2
    /\ Failed
    /\ reads = 3

(***************************************************************************)
(* C16.  Post-processing of the title.                                     *)
(***************************************************************************)
Max(S) == CHOOSE x \in S : \A y \in S : x >= y

\* s without its leading and trailing characters that are in drop.
StripEnds(s, drop) ==
    LET keep == {i \in 1..Len(s) : s[i] \notin drop}
    IN  IF keep = {} THEN <<>> ELSE SubSeq(s, Min(keep), Max(keep))
\* s without one enclosing pair of quotes or of emphasis marks.
StripOneLayer(s) ==
    IF Len(s) >= 2 /\ s[1] \in {"\"", "*"} /\ s[Len(s)] = s[1]
    THEN SubSeq(s, 2, Len(s) - 1) ELSE s
\* The first TitleMax characters of s.
Truncated(s) == SubSeq(s, 1, IF Len(s) < TitleMax THEN Len(s) ELSE TitleMax)

\* GenerateChatTitle has returned after a non-empty reply of the provider.
C16_Case ==
    /\ in.entry = "title"
    /\ pc = "done"
    /\ bodyState = "closed"
    /\ herr = NoErr
    /\ ~llmAnswer.nil
ProviderReply == in.reply.candidates[1][1]

\* C16 as stated: white space trimmed, exactly one enclosing layer of quotes
\* or emphasis removed, cut to TitleMax characters; a blank result is an
\* error.
C16_Original ==
    C16_Case =>
      LET t == StripOneLayer(StripEnds(ProviderReply, {" ", NL}))
      IN  IF StripEnds(t, {" ", NL}) = <<>>
          THEN ret.err # NoErr /\ ret.title = <<>>
          ELSE ret.err = NoErr /\ ret.title = Truncated(t)

\* C16 amended: white space trimmed, then every leading and trailing quote
\* removed, then every leading and trailing emphasis mark, cut to TitleMax
\* characters; an empty result is an error.
C16_TitleCleaned ==
    C16_Case =>
      LET t == StripEnds(StripEnds(StripEnds(ProviderReply, {" ", NL}), {"\""}), {"*"})
      IN  IF t = <<>>
          THEN /\ ret.err = ErrInternalUnexpected("Invalid title generated", <<>>)
               /\ ret.title = <<>>
          ELSE /\ ret.err = NoErr
               /\ ret.title = Truncated(t)
               /\ Len(ret.title) <= TitleMax

C16_Witness ==
    /\ C16_Case
    /\ ProviderReply = <<"*", "*", "a", "*", "*">>
    /\ ret.title = <<"a">>
    /\ ret.err = NoErr

\* The cut to TitleMax characters happens.
C16_WitnessLong ==
    /\ C16_Case
    /\ Len(ProviderReply) = TitleMax + 1
    /\ Len(ret.title) = TitleMax

(***************************************************************************)
(* C17.  No error carries the API key in its debug detail: the value of    *)
(* GEMINI_API_KEY is no piece of the debug detail of an error returned by  *)
(* an entry point or by handleRegularResponse.                             *)
(***************************************************************************)
CarriesKey(e) == \E i \in 1..Len(e.debug) : e.debug[i] = in.env

C17_NoKeyInDebug ==
    in.env # "" => (~CarriesKey(ret.err) /\ ~CarriesKey(herr))

(***************************************************************************)
(* C18.  A streaming invocation terminates: it has returned, Complete or   *)
(* Failed, after at most LineCap reads and reads nothing afterwards.  The  *)
(* bound counts every line read, so the frames forwarded are no more than  *)
(* the lines read, which are no more than LineCap.  Termination is shown   *)
(* by a variant: an invocation that has not returned can always take a     *)
(* step (every call it makes returns, the client has a timeout, line 39),  *)
(* and every step lowers StepsLeft, a natural number.                      *)
(***************************************************************************)
StepsLeft ==
    CASE pc = "start" -> LineCap + 3
      [] pc = "handleStreamResponse" -> LineCap + 2
      [] pc = "loop" -> LineCap + 1 - count
      [] OTHER -> 0

\* The invocation is at a position where one of its steps can be taken; in
\* the loop that is a read while count < LineCap (StreamLoop, whose
\* assignments are total) and the exit at the bound otherwise.
CanStep ==
    CASE pc = "start" -> ENABLED StreamPrepare
      [] pc = "handleStreamResponse" -> ENABLED StreamDo
      [] pc = "loop" -> (count < LineCap) \/ ENABLED StreamCap
      [] OTHER -> FALSE

C18_State ==
    in.entry = "stream" =>
      /\ reads <= LineCap
      /\ count <= reads
      /\ Len(forwarded) <= count
      /\ StepsLeft >= 0
      /\ pc # "done" => CanStep
      /\ pc = "done" => (Complete \/ Failed)

C18_Step ==
    in.entry = "stream" =>
      /\ StepsLeft' < StepsLeft
      /\ pc = "done" => reads' = reads

C18_Terminates == []C18_State /\ [][C18_Step]_vars

C18_Witness ==
    /\ Streaming
    /\ Complete
    /\ reads = LineCap
    /\ count = LineCap
    /\ Len(forwarded) = LineCap - 1

(***************************************************************************)
(* C19.  In streaming mode, bytes that end of input leaves without a       *)
(* newline are dropped: even with the data prefix they are neither parsed  *)
(* nor forwarded, and the call completes with the answer and the frames    *)
(* of the newline-terminated part of the body alone.                       *)
(***************************************************************************)
\* The body up to and including its last newline.
CutTail(body) ==
    LET nls == { k \in 1..Len(body) : body[k] = NL }
    IN  IF nls = {} THEN <<>>
        ELSE SubSeq(body, 1, CHOOSE m \in nls : \A o \in nls : o <= m)

NLCount(body) == Cardinality({ k \in 1..Len(body) : body[k] = NL })

C19_Case ==
    /\ Streaming
    /\ pc = "done"
    /\ ~in.readErr
    /\ in.body # CutTail(in.body)

C19_TailDropped ==
    C19_Case =>
      /\ Complete
      /\ ret = RunStream(CutTail(in.body), EOF, answerID).ret
      /\ forwarded = RunStream(CutTail(in.body), EOF, answerID).frames
      /\ Len(forwarded) <= NLCount(in.body)
      /\ reads = Min({NLCount(in.body) + 1, LineCap})

C19_Witness ==
    /\ C19_Case
    /\ HasPrefix(SubSeq(in.body, Len(CutTail(in.body)) + 1, Len(in.body)), headerData)
    /\ CutTail(in.body) = LineA
    /\ ret.ans.Answer = <<"a">>
    /\ Len(forwarded) = 1

(***************************************************************************)
(* C20.  The streaming relay does not look at the provider's status code:  *)
(* a response with a status other than 200 is read like any other stream,  *)
(* and when its body has no line with the data prefix the call completes   *)
(* with an empty answer, nothing forwarded and no error.                   *)
(***************************************************************************)
NoDataLine(body) ==
    \A k \in 1..Len(Lines(body)) : ~Significant(Lines(body)[k])

C20_Case == Streaming /\ pc = "done" /\ in.status # 200

C20_StatusIgnored ==
    C20_Case =>
      /\ ret = RunStream(in.body, EndErr(in), answerID).ret
      /\ forwarded = RunStream(in.body, EndErr(in), answerID).frames
      /\ (~in.readErr /\ NoDataLine(in.body)) =>
           /\ Complete
           /\ ret.err = NoErr
           /\ ret.ans.Answer = <<>>
           /\ forwarded = <<>>

C20_Witness ==
    /\ C20_Case
    /\ ~in.readErr
    /\ in.body = LineNoSpace
    /\ Complete
    /\ ret.ans.Answer = <<>>
    /\ forwarded = <<>>

====
